---- MODULE Spec2Model ----
(***************************************************************************)
(* The four scene scripts temp/videos/chunks/chunk_{8,9,10,11}: each       *)
(* VideoScene.construct() builds two Text objects, scales the body text    *)
(* and issues play / wait / play / wait / play to the rendering framework. *)
(*                                                                         *)
(* Two renders are modelled side by side (Runs), each of a scene chosen    *)
(* freely, so that statements comparing two scenes, or two renders of one  *)
(* scene, are statements about one state.                                  *)
(*                                                                         *)
(* Units: time is counted in tenths of a second (run_time=1.5 is 15),      *)
(* lengths in thousandths of a scene unit (width 11 is 11000).             *)
(***************************************************************************)
EXTENDS Integers, Sequences, FiniteSets, TLC

VARIABLES chunk, advance, pc, playing, elapsed, started, time,
          title, content, starting, mobjects, log

vars == <<chunk, advance, pc, playing, elapsed, started, time,
          title, content, starting, mobjects, log>>

\* The renders observed together.
Runs == {1, 2}

\* The scene files of the repository.
Chunks == {8, 9, 10, 11}

\* Widest glyph advance considered, in thousandths of a scene unit per
\* character and per font-size point (the installed font decides it).
MaxAdvance == 6

\* One narrow and one wide font: with the narrow one the body text is
\* narrower than the fit width before scaling, with the wide one wider.
Advances == {MaxAdvance \div 2, MaxAdvance}

\* content.scale_to_fit_width(11): 11 scene units, in thousandths.
FitWidth == 11000

\* A name that is bound to no object yet.
NoMobject == [text |-> "", shape |-> "", color |-> "", width |-> 0, built |-> FALSE]

---------------------------------------------------------------------------
(* The statements of construct(), one record per source line.              *)

\* name = Text(text, font_size=..., color=...)
TextStmt(line, var, text, font_size, color) ==
    [op |-> "Text", line |-> line, var |-> var, text |-> text,
     font_size |-> font_size, color |-> color, width |-> 0,
     anim |-> "", target |-> "", run_time |-> 0]

\* name.scale_to_fit_width(width)
ScaleStmt(line, var, width) ==
    [op |-> "scale_to_fit_width", line |-> line, var |-> var, text |-> "",
     font_size |-> 0, color |-> "", width |-> width,
     anim |-> "", target |-> "", run_time |-> 0]

\* self.play(Anim(var[, target]), run_time=...)
PlayStmt(line, anim, var, target, run_time) ==
    [op |-> "play", line |-> line, var |-> var, text |-> "",
     font_size |-> 0, color |-> "", width |-> 0,
     anim |-> anim, target |-> target, run_time |-> run_time]

\* self.wait(duration)
WaitStmt(line, duration) ==
    [op |-> "wait", line |-> line, var |-> "", text |-> "",
     font_size |-> 0, color |-> "", width |-> 0,
     anim |-> "Wait", target |-> "", run_time |-> duration]

\* Chunk8 with nothing to say in the body.
Chunk8EmptyBody ==
    << TextStmt(6, "title", "Machine Learning Models", 40, "BLUE"),
       TextStmt(7, "content", "", 24, "WHITE"),
       ScaleStmt(8, "content", FitWidth),
       PlayStmt(11, "Write", "title", "", 15),
       WaitStmt(12, 5),
       PlayStmt(15, "Transform", "title", "content", 10),
       WaitStmt(16, 20),
       PlayStmt(19, "FadeOut", "title", "", 5) >>

\* Chunk8 with the title set in another size than the other scenes.
Chunk8OtherFont ==
    << TextStmt(6, "title", "Machine Learning Models", 36, "BLUE"),
       TextStmt(7, "content", "Machine learning models are like the brain of the child. They learn from data and make predictions. ...", 24, "WHITE"),
       ScaleStmt(8, "content", FitWidth),
       PlayStmt(11, "Write", "title", "", 15),
       WaitStmt(12, 5),
       PlayStmt(15, "Transform", "title", "content", 10),
       WaitStmt(16, 20),
       PlayStmt(19, "FadeOut", "title", "", 5) >>

\* chunk_8.py
Chunk8 ==
    << TextStmt(6, "title", "Machine Learning Models", 40, "BLUE"),
       TextStmt(7, "content", "Machine learning models are like the brain of the child. They learn from data and make predictions. ...", 24, "WHITE"),
       ScaleStmt(8, "content", FitWidth),
       PlayStmt(11, "Write", "title", "", 15),
       WaitStmt(12, 5),
       PlayStmt(15, "Transform", "title", "content", 10),
       WaitStmt(16, 20),
       PlayStmt(19, "FadeOut", "title", "", 5) >>

\* Chunk9 with the two holds exchanged.
Chunk9WaitsSwapped ==
    << TextStmt(6, "title", "Real-World Applications", 40, "BLUE"),
       TextStmt(7, "content", "Machine learning is used in many real-world applications, such as image recognition, natural languag...", 24, "WHITE"),
       ScaleStmt(8, "content", FitWidth),
       PlayStmt(11, "Write", "title", "", 15),
       WaitStmt(12, 20),
       PlayStmt(15, "Transform", "title", "content", 10),
       WaitStmt(16, 5),
       PlayStmt(19, "FadeOut", "title", "", 5) >>

\* chunk_9.py
Chunk9 ==
    << TextStmt(6, "title", "Real-World Applications", 40, "BLUE"),
       TextStmt(7, "content", "Machine learning is used in many real-world applications, such as image recognition, natural languag...", 24, "WHITE"),
       ScaleStmt(8, "content", FitWidth),
       PlayStmt(11, "Write", "title", "", 15),
       WaitStmt(12, 5),
       PlayStmt(15, "Transform", "title", "content", 10),
       WaitStmt(16, 20),
       PlayStmt(19, "FadeOut", "title", "", 5) >>

\* Chunk10 with the title written in one second.
Chunk10ShortWrite ==
    << TextStmt(6, "title", "Conclusion", 40, "BLUE"),
       TextStmt(7, "content", "In conclusion, machine learning is a powerful tool that can learn from data and make predictions. It...", 24, "WHITE"),
       ScaleStmt(8, "content", FitWidth),
       PlayStmt(11, "Write", "title", "", 10),
       WaitStmt(12, 5),
       PlayStmt(15, "Transform", "title", "content", 10),
       WaitStmt(16, 20),
       PlayStmt(19, "FadeOut", "title", "", 5) >>

\* chunk_10.py
Chunk10 ==
    << TextStmt(6, "title", "Conclusion", 40, "BLUE"),
       TextStmt(7, "content", "In conclusion, machine learning is a powerful tool that can learn from data and make predictions. It...", 24, "WHITE"),
       ScaleStmt(8, "content", FitWidth),
       PlayStmt(11, "Write", "title", "", 15),
       WaitStmt(12, 5),
       PlayStmt(15, "Transform", "title", "content", 10),
       WaitStmt(16, 20),
       PlayStmt(19, "FadeOut", "title", "", 5) >>

\* Chunk11 with the body scaled only after the title was written.
Chunk11ScaleLate ==
    << TextStmt(6, "title", "What is Machine Learning?", 40, "BLUE"),
       TextStmt(7, "content", "Imagine you're trying to teach a child to recognize different animals. You show them pictures of cat...", 24, "WHITE"),
       PlayStmt(11, "Write", "title", "", 15),
       ScaleStmt(8, "content", FitWidth),
       WaitStmt(12, 5),
       PlayStmt(15, "Transform", "title", "content", 10),
       WaitStmt(16, 20),
       PlayStmt(19, "FadeOut", "title", "", 5) >>

\* chunk_11.py
Chunk11 ==
    << TextStmt(6, "title", "What is Machine Learning?", 40, "BLUE"),
       TextStmt(7, "content", "Imagine you're trying to teach a child to recognize different animals. You show them pictures of cat...", 24, "WHITE"),
       ScaleStmt(8, "content", FitWidth),
       PlayStmt(11, "Write", "title", "", 15),
       WaitStmt(12, 5),
       PlayStmt(15, "Transform", "title", "content", 10),
       WaitStmt(16, 20),
       PlayStmt(19, "FadeOut", "title", "", 5) >>

\* The body of construct() in the file of scene c.
Script(c) ==
    CASE c = 8  -> Chunk8
      [] c = 9  -> Chunk9
      [] c = 10 -> Chunk10
      [] c = 11 -> Chunk11

---------------------------------------------------------------------------
(* The framework's primitives, as far as the scripts use them.             *)

\* Width of a freshly built Text: glyph advances add up along the line.
NaturalWidth(text, font_size) == Len(text) * font_size * advance

\* A Text whose extent depends on how far the first render has got.
TextSharedState(text, font_size, color) ==
    [text |-> text, shape |-> text, color |-> color,
     width |-> NaturalWidth(text, font_size) + pc[1], built |-> TRUE]

\* Text(text, font_size=, color=): text is the attribute the object keeps,
\* shape the string whose glyph outlines its points draw.
Text(text, font_size, color) ==
    [text |-> text, shape |-> text, color |-> color,
     width |-> NaturalWidth(text, font_size), built |-> TRUE]

\* A scale_to_fit_width that leaves the object as it is.
ScaleToFitWidthSkipped(m, width) == m

\* Mobject.scale_to_fit_width(width): nothing to scale when the object has
\* no extent, else scale by width / old width.
ScaleToFitWidth(m, width) ==
    IF m.width = 0 THEN m
    ELSE [m EXCEPT !.width = (m.width * width) \div m.width]

\* Introducers and ordinary animations put their mobject on the scene when
\* they begin, unless it is there already; the target of a Transform is
\* never added.
AddToScene(ms, var) ==
    IF \E i \in 1..Len(ms) : ms[i] = var THEN ms ELSE Append(ms, var)

\* Scene.remove
RemoveFromScene(ms, var) == SelectSeq(ms, LAMBDA v : v # var)

\* No animation removes its mobject.
IsRemoverNever(anim) == FALSE

\* FadeOut is the only remover among the animations used.
IsRemover(anim) == anim = "FadeOut"

\* Animation.interpolate at elapsed / run_time: a Transform moves the
\* mobject from its starting copy to the target; the outline in between
\* is tracked by its width, outline and colour are the target's on
\* arrival; the text attribute is not touched.
Interpolate(stmt, m, start, target, e) ==
    IF stmt.anim # "Transform" THEN m
    ELSE IF e >= stmt.run_time
         THEN [m EXCEPT !.shape = target.shape, !.color = target.color,
                        !.width = target.width]
         ELSE [m EXCEPT !.width =
                 start.width + ((target.width - start.width) * e) \div stmt.run_time]

---------------------------------------------------------------------------
(* State of one render.                                                    *)

Stmts(r) == Script(chunk[r])

Done(r) == pc[r] > Len(Stmts(r))

Cur(r) == Stmts(r)[pc[r]]

\* The object a script variable is bound to.
Value(r, var) == IF var = "title" THEN title[r] ELSE content[r]

\* What the render has executed: the statement, and when it began and ended.
LogEntry(stmt, from, to) ==
    [op |-> stmt.op, line |-> stmt.line, var |-> stmt.var, text |-> stmt.text,
     font_size |-> stmt.font_size, color |-> stmt.color, width |-> stmt.width,
     anim |-> stmt.anim, target |-> stmt.target, run_time |-> stmt.run_time,
     start |-> from, end |-> to]

Init ==
    /\ chunk \in [Runs -> Chunks]
    /\ advance \in Advances
    /\ pc = [r \in Runs |-> 1]
    /\ playing = [r \in Runs |-> FALSE]
    /\ elapsed = [r \in Runs |-> 0]
    /\ started = [r \in Runs |-> 0]
    /\ time = [r \in Runs |-> 0]
    /\ title = [r \in Runs |-> NoMobject]
    /\ content = [r \in Runs |-> NoMobject]
    /\ starting = [r \in Runs |-> NoMobject]
    /\ mobjects = [r \in Runs |-> << >>]
    /\ log = [r \in Runs |-> << >>]

\* Lines 6 and 7: bind a name to a new Text.
ConstructText(r) ==
    /\ ~Done(r) /\ ~playing[r]
    /\ Cur(r).op = "Text"
    /\ LET s == Cur(r)
           m == Text(s.text, s.font_size, s.color)
       IN /\ title' = IF s.var = "title" THEN [title EXCEPT ![r] = m] ELSE title
          /\ content' = IF s.var = "content" THEN [content EXCEPT ![r] = m] ELSE content
          /\ log' = [log EXCEPT ![r] = Append(@, LogEntry(s, time[r], time[r]))]
    /\ pc' = [pc EXCEPT ![r] = @ + 1]
    /\ UNCHANGED <<chunk, advance, playing, elapsed, started, time, starting, mobjects>>

\* Line 8: content.scale_to_fit_width(11).
ScaleContent(r) ==
    /\ ~Done(r) /\ ~playing[r]
    /\ Cur(r).op = "scale_to_fit_width"
    /\ LET s == Cur(r)
           m == ScaleToFitWidth(Value(r, s.var), s.width)
       IN /\ title' = IF s.var = "title" THEN [title EXCEPT ![r] = m] ELSE title
          /\ content' = IF s.var = "content" THEN [content EXCEPT ![r] = m] ELSE content
          /\ log' = [log EXCEPT ![r] = Append(@, LogEntry(s, time[r], time[r]))]
    /\ pc' = [pc EXCEPT ![r] = @ + 1]
    /\ UNCHANGED <<chunk, advance, playing, elapsed, started, time, starting, mobjects>>

\* self.play(...) is entered: the animation begins.
BeginPlay(r) ==
    /\ ~Done(r) /\ ~playing[r]
    /\ Cur(r).op = "play"
    /\ playing' = [playing EXCEPT ![r] = TRUE]
    /\ elapsed' = [elapsed EXCEPT ![r] = 0]
    /\ started' = [started EXCEPT ![r] = time[r]]
    /\ starting' = [starting EXCEPT ![r] = Value(r, Cur(r).var)]
    /\ mobjects' = [mobjects EXCEPT ![r] = AddToScene(@, Cur(r).var)]
    /\ UNCHANGED <<chunk, advance, pc, time, title, content, log>>

\* self.wait(...) is entered: nothing is animated.
BeginWait(r) ==
    /\ ~Done(r) /\ ~playing[r]
    /\ Cur(r).op = "wait"
    /\ playing' = [playing EXCEPT ![r] = TRUE]
    /\ elapsed' = [elapsed EXCEPT ![r] = 0]
    /\ started' = [started EXCEPT ![r] = time[r]]
    /\ UNCHANGED <<chunk, advance, pc, time, title, content, starting, mobjects, log>>

\* A frame that makes no progress.
FrameStalled(r) ==
    /\ playing[r]
    /\ elapsed[r] < Cur(r).run_time
    /\ UNCHANGED vars

\* One frame of the running play or wait: time moves on by a tenth of a
\* second and the animated mobject is interpolated.
Frame(r) ==
    /\ playing[r]
    /\ elapsed[r] < Cur(r).run_time
    /\ elapsed' = [elapsed EXCEPT ![r] = @ + 1]
    /\ time' = [time EXCEPT ![r] = @ + 1]
    /\ title' = IF Cur(r).op = "play" /\ Cur(r).var = "title"
                THEN [title EXCEPT ![r] =
                        Interpolate(Cur(r), @, starting[r],
                                    Value(r, Cur(r).target), elapsed[r] + 1)]
                ELSE title
    /\ UNCHANGED <<chunk, advance, pc, playing, started, content, starting, mobjects, log>>

\* The play is over: the animation is finished and cleaned up, a remover
\* takes its mobject off the scene, and construct() goes on.
FinishPlay(r) ==
    /\ playing[r]
    /\ Cur(r).op = "play"
    /\ elapsed[r] >= Cur(r).run_time
    /\ mobjects' = [mobjects EXCEPT ![r] =
                      IF IsRemover(Cur(r).anim) THEN RemoveFromScene(@, Cur(r).var) ELSE @]
    /\ log' = [log EXCEPT ![r] = Append(@, LogEntry(Cur(r), started[r], time[r]))]
    /\ playing' = [playing EXCEPT ![r] = FALSE]
    /\ pc' = [pc EXCEPT ![r] = @ + 1]
    /\ UNCHANGED <<chunk, advance, elapsed, started, time, title, content, starting>>

\* The wait is over.
FinishWait(r) ==
    /\ playing[r]
    /\ Cur(r).op = "wait"
    /\ elapsed[r] >= Cur(r).run_time
    /\ log' = [log EXCEPT ![r] = Append(@, LogEntry(Cur(r), started[r], time[r]))]
    /\ playing' = [playing EXCEPT ![r] = FALSE]
    /\ pc' = [pc EXCEPT ![r] = @ + 1]
    /\ UNCHANGED <<chunk, advance, elapsed, started, time, title, content, starting, mobjects>>

\* One step of render r.
Step(r) ==
    \/ ConstructText(r)
    \/ ScaleContent(r)
    \/ BeginPlay(r)
    \/ BeginWait(r)
    \/ Frame(r)
    \/ FinishPlay(r)
    \/ FinishWait(r)

Next == \E r \in Runs : Step(r)

Spec == Init /\ [][Next]_vars

\* The renderer keeps rendering: a render that can take a step takes one.
FairSpec == Spec /\ \A r \in Runs : WF_vars(Step(r))

---------------------------------------------------------------------------
(* Properties.                                                             *)

\* The play and wait steps a render has completed, in order.
Timed(r) == SelectSeq(log[r], LAMBDA e : e.op \in {"play", "wait"})

\* Sum of the time the entries of a log took.
RECURSIVE TotalDuration(_)
TotalDuration(l) ==
    IF l = << >> THEN 0
    ELSE (l[Len(l)].end - l[Len(l)].start) + TotalDuration(SubSeq(l, 1, Len(l) - 1))

\* Sum of the run_time and wait arguments the entries of a log were issued with.
RECURSIVE TotalRunTime(_)
TotalRunTime(l) ==
    IF l = << >> THEN 0
    ELSE l[Len(l)].run_time + TotalRunTime(SubSeq(l, 1, Len(l) - 1))

\* The Transform of render r has begun (the body's outline is on its way
\* to the screen or on it).
TransformBegun(r) ==
    \/ playing[r] /\ Cur(r).anim = "Transform"
    \/ \E i \in 1..Len(log[r]) : log[r][i].anim = "Transform"

\* The Transform of render r has arrived at its target.
TransformArrived(r) ==
    \/ playing[r] /\ Cur(r).anim = "Transform" /\ elapsed[r] >= Cur(r).run_time
    \/ \E i \in 1..Len(log[r]) : log[r][i].anim = "Transform"

AllDone == \A r \in Runs : Done(r)

\* C1: when construct() of any of the four scenes has finished, the
\* durations of its timed steps (run_time of each play, argument of each
\* wait) add up to 5.5 seconds, and that is the time they took.
C1_TotalDuration ==
    \A r \in Runs :
        Done(r) => /\ TotalRunTime(Timed(r)) = 55
                   /\ TotalDuration(Timed(r)) = 55

C1_witness == \E r \in Runs : Done(r) /\ chunk[r] = 10 /\ Len(Timed(r)) = 5

\* C2: from the start of the title reveal to the end of the final fade
\* out a scene takes 5 seconds.
C2_FiveSeconds ==
    \A r \in Runs :
        Done(r) => time[r] - Timed(r)[1].start = 50

\* C3 states this timeline: kind of step, animation, duration.
Timeline ==
    << <<"play", "Write", 15>>, <<"wait", "Wait", 5>>, <<"play", "Transform", 10>>,
       <<"wait", "Wait", 20>>, <<"play", "FadeOut", 5>> >>

\* C3: the timed steps of every scene are, in this order and with these
\* durations, Write 1.5s, wait 0.5s, Transform 1.0s, wait 2.0s, FadeOut
\* 0.5s: what has been completed is always a prefix of that timeline, the
\* step in progress is the next one of it, a step starts no earlier than
\* the previous one ended, and a finished construct() has done all five.
C3_Timeline ==
    \A r \in Runs :
        LET t == Timed(r) IN
        /\ Len(t) <= Len(Timeline)
        /\ \A i \in 1..Len(t) :
              /\ <<t[i].op, t[i].anim, t[i].end - t[i].start>> = Timeline[i]
              /\ i > 1 => t[i].start >= t[i-1].end
        /\ playing[r] =>
              /\ Len(t) < Len(Timeline)
              /\ <<Cur(r).op, Cur(r).anim, Cur(r).run_time>> = Timeline[Len(t) + 1]
              /\ Len(t) > 0 => started[r] >= t[Len(t)].end
              /\ elapsed[r] = time[r] - started[r]
        /\ Done(r) => Len(t) = Len(Timeline)

C3_witness ==
    \E r \in Runs : chunk[r] = 9 /\ playing[r] /\ Cur(r).anim = "FadeOut" /\ elapsed[r] = 3

\* C4: the body text is scaled to the fit width of 11 units before any
\* play or wait step, hence before the Transform that brings its outline
\* to the screen.
C4_ScaledBeforeShown ==
    \A r \in Runs :
        LET Scaled(n) == \E j \in 1..n : /\ log[r][j].op = "scale_to_fit_width"
                                         /\ log[r][j].var = "content"
                                         /\ log[r][j].width = FitWidth
        IN /\ \A i \in 1..Len(log[r]) :
                 log[r][i].op \in {"play", "wait"} => Scaled(i - 1)
           /\ playing[r] => Scaled(Len(log[r]))

C4_witness ==
    \E r \in Runs : chunk[r] = 11 /\ playing[r] /\ Cur(r).anim = "Write" /\ elapsed[r] = 0

\* C5: from the start of the Transform on, the body text is no wider than
\* the fit width, and so is the outline on screen once the title has
\* become the body, whatever the body's width was when it was built.
C5_FitsWidth ==
    \A r \in Runs :
        /\ TransformBegun(r) => content[r].width <= FitWidth
        /\ TransformArrived(r) =>
              /\ title[r].shape = content[r].text
              /\ title[r].width <= FitWidth

\* The body was wider than the fit width when built, and is on screen.
C5_witness ==
    \E r \in Runs :
        /\ NaturalWidth(content[r].text, 24) > FitWidth
        /\ TransformArrived(r) /\ ~Done(r)
        /\ mobjects[r] = <<"title">>

\* C6: the strings the title and the body of every scene are built from
\* are not empty.
C6_NonEmptyStrings ==
    \A r \in Runs :
        /\ title[r].built => Len(title[r].text) > 0
        /\ content[r].built => Len(content[r].text) > 0
        /\ \A i \in 1..Len(log[r]) : log[r][i].op = "Text" => log[r][i].text # ""

C6_witness ==
    \E r \in Runs : chunk[r] = 8 /\ title[r].built /\ content[r].built /\ pc[r] = 3

\* C7: every construct() runs to completion, given that the framework
\* keeps rendering frames: eventually every render is past its last fade out.
C7_Terminates == <>AllDone

C7_witness == AllDone /\ \A r \in Runs : time[r] > 0 /\ ~playing[r]

\* What two scenes have in common: everything a log entry records but the string.
Template(l) == [i \in 1..Len(l) |-> [l[i] EXCEPT !.text = ""]]

\* C8: the steps executed by construct(), their kinds, order, durations,
\* font sizes, colours and fit width, are the same in all four scenes;
\* only the two strings differ.
C8_OneTemplate ==
    \A r1, r2 \in Runs :
        Done(r1) /\ Done(r2) => Template(log[r1]) = Template(log[r2])

C8_witness == Done(1) /\ Done(2) /\ chunk[1] = 8 /\ chunk[2] = 11 /\ log[1] # log[2]

C10_OnlyTitleOnScene ==
    \A r \in Runs :
        /\ Len(mobjects[r]) <= 1
        /\ \A i \in 1..Len(mobjects[r]) : mobjects[r][i] = "title"
        /\ Done(r) => mobjects[r] = << >>

C10_witness ==
    \E r \in Runs : Done(r) /\ mobjects[r] = << >> /\ title[r].shape = content[r].text
====
